---- MODULE Spec2Model ----
(***************************************************************************)
(* Verification model of ballistic_montecarlo/monte_carlo_simulation.py:   *)
(* Simulation.run_simulation and Simulation._step_position with the        *)
(* geometry helpers they call.                                             *)
(*                                                                         *)
(* Numbers.  The program computes in floating point.  The model computes   *)
(* exactly, to first order in the bias of _get_intersections:              *)
(*   - a number is a pair <<a, b>> of integers that stands for             *)
(*     a + b * 1E-10, or it is NaN (the program's nan); a product drops    *)
(*     the term in 1E-20;                                                  *)
(*   - a length is a number in the program's own unit of length;           *)
(*   - the fraction f of a Fermi sample n_f = (i, f) is a number over      *)
(*     FDen (<<FDen, 0>> is the program's 1.0);                            *)
(*   - a probability is a numerator over PDen and np.random.rand() is a    *)
(*     numerator in 0..PDen-1 over PDen (so it ranges over [0, 1));        *)
(*   - the bias of 1E-10 of _get_intersections is Bias = <<0, 1>>.         *)
(* The device's walls and the chords of its Fermi surface have whole       *)
(* coordinates and are parallel to an axis or at 45 degrees, so that       *)
(* every quotient the program takes on them is whole in both parts.        *)
(* Frame, Edge, OhmicLines and Bandstructure are imported by the program   *)
(* from other packages; their data and their sampling operations are the   *)
(* environment of this model.                                              *)
(***************************************************************************)
EXTENDS Integers, Sequences, FiniteSets, TLC

(***************************************************************************)
(* class TrajectoryState(IntEnum) and ALL_STATES                           *)
(***************************************************************************)
INJECTING == 1
PROPAGATE == 2
COLLISION == 3
SCATTER == 4
REFLECT == 5
ABSORBED == 6
CCOLLISION == 7
CSCATTER == 8
CREFLECT == 9
CABSORBED == 10
ERROR == 11

ALL_STATES == 0..10

\* None, as the edge of a waypoint
None == 0

(***************************************************************************)
(* Fixed point denominators                                                *)
(***************************************************************************)
FDen == 4
PDen == 2

(***************************************************************************)
(* Numbers: a + b * 1E-10 as <<a, b>>, and nan                             *)
(***************************************************************************)
\* a / b for a quotient that is a whole number
Div(a, b) == IF b < 0 THEN (-a) \div (-b) ELSE a \div b

\* np.sqrt of a perfect square
Sqrt(n) == CHOOSE r \in 0..n : r * r = n

\* float('nan')
NaN == << "nan" >>

IsNaN(p) == Len(p) = 1

\* the whole number a
Num(a) == << a, 0 >>

Zero == << 0, 0 >>

\* 1E-10, line 518
Bias == << 0, 1 >>

\* The operations.  Each takes the value of an argument once, as the one
\* element a of {p}, and works on that value.
Plus(p, q) ==
  CHOOSE r \in {IF IsNaN(a) \/ IsNaN(b) THEN NaN
                ELSE << a[1] + b[1], a[2] + b[2] >> : a \in {p}, b \in {q}} : TRUE

Minus(p, q) ==
  CHOOSE r \in {IF IsNaN(a) \/ IsNaN(b) THEN NaN
                ELSE << a[1] - b[1], a[2] - b[2] >> : a \in {p}, b \in {q}} : TRUE

Neg(p) ==
  CHOOSE r \in {IF IsNaN(a) THEN NaN ELSE << -a[1], -a[2] >> : a \in {p}} : TRUE

\* p * q, to first order
Times(p, q) ==
  CHOOSE r \in {IF IsNaN(a) \/ IsNaN(b) THEN NaN
                ELSE << a[1] * b[1], a[1] * b[2] + a[2] * b[1] >> :
                  a \in {p}, b \in {q}} : TRUE

\* p / q, to first order, the quotient being whole in both parts; 0 / 0 is
\* nan; no other quotient by 0 is taken
Over(p, q) ==
  CHOOSE r \in
    {IF IsNaN(a) \/ IsNaN(b) THEN NaN
     ELSE IF b[1] # 0
     THEN << Div(a[1], b[1]), Div(a[2] * b[1] - a[1] * b[2], b[1] * b[1]) >>
     ELSE IF b[2] # 0 /\ a[1] = 0
     THEN << Div(a[2], b[2]), 0 >>
     ELSE NaN : a \in {p}, b \in {q}} : TRUE

\* 0 < p; a comparison with nan is False
Positive(p) ==
  \E a \in {p} : ~IsNaN(a) /\ (a[1] > 0 \/ (a[1] = 0 /\ a[2] > 0))

\* p < q
Lt(p, q) == Positive(Minus(q, p))

\* p <= q
Le(p, q) == \E d \in {Minus(p, q)} : ~IsNaN(d) /\ ~Positive(d)

\* p != q
Differ(p, q) == \E d \in {Minus(p, q)} : IsNaN(d) \/ d # Zero

Abs(p) == CHOOSE r \in {IF Positive(Neg(a)) THEN Neg(a) ELSE a : a \in {p}} : TRUE

\* np.sqrt(dx**2 + dy**2): the length of a vector that is along an axis, or
\* that has whole coordinates and a whole length
Norm(dx, dy) ==
  IF IsNaN(dx) \/ IsNaN(dy) THEN NaN
  ELSE IF dy = Zero THEN Abs(dx)
  ELSE IF dx = Zero THEN Abs(dy)
  ELSE Num(Sqrt(dx[1] * dx[1] + dy[1] * dy[1]))

(***************************************************************************)
(* The environment: the device (Frame), its auxiliary lines (OhmicLines)   *)
(* and the Fermi surface (Bandstructure.r and Bandstructure.dr).           *)
(* An edge is its two end points, its normal and its layer; edges are      *)
(* named by their index in Frame.edges.  Auxiliary lines are named by      *)
(* NEdges + their index in OhmicLines.lines_as_edges.                      *)
(***************************************************************************)
FrameEdges ==
  << [xs |-> <<0, 1>>, ys |-> <<0, 0>>, normal |-> <<0, 1>>,  layer |-> 0],
     [xs |-> <<1, 3>>, ys |-> <<0, 0>>, normal |-> <<0, 1>>,  layer |-> 1],
     [xs |-> <<3, 6>>, ys |-> <<0, 0>>, normal |-> <<0, 1>>,  layer |-> 0],
     [xs |-> <<6, 6>>, ys |-> <<0, 6>>, normal |-> <<-1, 0>>, layer |-> 3],
     [xs |-> <<6, 1>>, ys |-> <<6, 6>>, normal |-> <<0, -1>>, layer |-> 0],
     [xs |-> <<1, 0>>, ys |-> <<6, 5>>, normal |-> <<1, -1>>, layer |-> 0],
     [xs |-> <<0, 0>>, ys |-> <<5, 4>>, normal |-> <<1, 0>>,  layer |-> 2],
     [xs |-> <<0, 0>>, ys |-> <<4, 0>>, normal |-> <<1, 0>>,  layer |-> 2] >>

NEdges == Len(FrameEdges)

\* OhmicLines as constructed by the caller (layer before __init__ offsets it)
OhmicLineEdges ==
  << [xs |-> <<3, 3>>, ys |-> <<4, 3>>,  normal |-> <<1, 0>>, layer |-> 0],
     [xs |-> <<7, 7>>, ys |-> <<-1, 1>>, normal |-> <<1, 0>>, layer |-> 0] >>

NLines == Len(OhmicLineEdges)

\* Bandstructure.dr: one chord per Fermi bin (bin i is DR[i + 1])
DR == << <<4, 0>>, <<0, 4>>, <<-4, 0>>, <<0, -4>> >>

NBins == Len(DR)

Bins == 0..(NBins - 1)

\* Bandstructure.r: the corners of the Fermi surface, closed (the first
\* point again at the end); chord i runs from R[i + 1] to R[i + 2]
R == << <<0, 0>>, <<4, 0>>, <<4, 4>>, <<0, 4>>, <<0, 0>> >>

(***************************************************************************)
(* Frame and OhmicLines: the precomputed coefficients of the batched       *)
(* line-line test, and the operations the program calls on them            *)
(***************************************************************************)
FramePx0 == [i \in 1..NEdges |-> FrameEdges[i].xs[1]]
FramePy0 == [i \in 1..NEdges |-> FrameEdges[i].ys[1]]
FrameX23 == [i \in 1..NEdges |-> FrameEdges[i].xs[1] - FrameEdges[i].xs[2]]
FrameY23 == [i \in 1..NEdges |-> FrameEdges[i].ys[1] - FrameEdges[i].ys[2]]

LinesPx0 == [i \in 1..NLines |-> OhmicLineEdges[i].xs[1]]
LinesPy0 == [i \in 1..NLines |-> OhmicLineEdges[i].ys[1]]
LinesX23 == [i \in 1..NLines |-> OhmicLineEdges[i].xs[1] - OhmicLineEdges[i].xs[2]]
LinesY23 == [i \in 1..NLines |-> OhmicLineEdges[i].ys[1] - OhmicLineEdges[i].ys[2]]

\* edge.layer of a frame edge
Layer(e) == FrameEdges[e].layer

\* __init__: max_layer over the frame's edges, starting from 0
MaxLayer ==
  CHOOSE m \in {0} \cup {Layer(e) : e \in 1..NEdges} :
    \A e \in 1..NEdges : Layer(e) <= m

\* __init__: line.layer += max_layer + 1
LineLayer(l) == OhmicLineEdges[l - NEdges].layer + MaxLayer + 1

\* the keys of edge_to_count
EdgeKeys == 1..NEdges
LineKeys == (NEdges + 1)..(NEdges + NLines)

\* Frame.body.intersects(Point(x, y)): the closed convex region the edges
\* enclose, each edge's normal pointing into it
InBody(x, y) ==
  \A e \in 1..NEdges :
    Le(Zero,
       Plus(Times(Minus(x, Num(FrameEdges[e].xs[1])), Num(FrameEdges[e].normal[1])),
            Times(Minus(y, Num(FrameEdges[e].ys[1])), Num(FrameEdges[e].normal[2]))))

(***************************************************************************)
(* Simulation.get_ts_us, for one line: t and u as numerators over the     *)
(* common denominator den.  A zero denominator is the program's inf or    *)
(* nan, which fails 0 <= t <= 1.                                           *)
(***************************************************************************)
get_ts_us(x01, x02, x23, y01, y02, y23) ==
  [tn  |-> Minus(Times(x02, y23), Times(y02, x23)),
   un  |-> Neg(Minus(Times(x01, y02), Times(y01, x02))),
   den |-> Minus(Times(x01, y23), Times(y01, x23))]

\* 0 <= n/den and n/den <= 1
InUnit(n, den) ==
  \/ Positive(den) /\ Le(Zero, n) /\ Le(n, den)
  \/ Positive(Neg(den)) /\ Le(den, n) /\ Le(n, Zero)

\* 0 <= t and t <= 1 and 0 <= u and u <= 1
Crossing(tu) == InUnit(tu.tn, tu.den) /\ InUnit(tu.un, tu.den)

(***************************************************************************)
(* Simulation._update_position                                             *)
(***************************************************************************)
UpdatePosition(n_f_in, x_in, y_in) ==
  << << (n_f_in[1] + 1) % NBins, Num(FDen) >>,
     Plus(x_in, Over(Times(n_f_in[2], Num(DR[n_f_in[1] + 1][1])), Num(FDen))),
     Plus(y_in, Over(Times(n_f_in[2], Num(DR[n_f_in[1] + 1][2])), Num(FDen))) >>

(***************************************************************************)
(* Simulation._get_intersections (bias=True): the frame edges the step    *)
(* crosses against their normal, in the order of Frame.edges, each with   *)
(* the crossing point moved back by the bias along the step.               *)
(***************************************************************************)
EdgeTU(i, x, y, x_new, y_new) ==
  get_ts_us(Neg(Minus(x_new, x)), Minus(x, Num(FramePx0[i])), Num(FrameX23[i]),
            Neg(Minus(y_new, y)), Minus(y, Num(FramePy0[i])), Num(FrameY23[i]))

\* edge.xs[0] + u*(edge.xs[1] - edge.xs[0])
EdgeXInt(i, tu) ==
  Plus(Num(FrameEdges[i].xs[1]),
       Over(Times(tu.un, Num(FrameEdges[i].xs[2] - FrameEdges[i].xs[1])), tu.den))

\* edge.ys[0] + u*(edge.ys[1] - edge.ys[0])
EdgeYInt(i, tu) ==
  Plus(Num(FrameEdges[i].ys[1]),
       Over(Times(tu.un, Num(FrameEdges[i].ys[2] - FrameEdges[i].ys[1])), tu.den))

\* lines 511-516, given the edge's t and u
EdgeHitAt(i, tu, x, y, x_new, y_new) ==
  /\ Crossing(tu)
  /\ Positive(Neg(Plus(Times(Minus(x_new, x), Num(FrameEdges[i].normal[1])),
                       Times(Minus(y_new, y), Num(FrameEdges[i].normal[2])))))
  /\ (Differ(EdgeXInt(i, tu), x) \/ Differ(EdgeYInt(i, tu), y))

EdgeHit(i, x, y, x_new, y_new) ==
  EdgeHitAt(i, EdgeTU(i, x, y, x_new, y_new), x, y, x_new, y_new)

\* 1E-10 * np.array([(x_new-x), (y_new-y)]) / np.sqrt((x_new-x)**2 + (y_new-y)**2)
BiasVector(x, y, x_new, y_new) ==
  << Over(Times(Bias, Minus(x_new, x)), Norm(Minus(x_new, x), Minus(y_new, y))),
     Over(Times(Bias, Minus(y_new, y)), Norm(Minus(x_new, x), Minus(y_new, y))) >>

RECURSIVE IntersectionsFrom(_, _, _, _, _)
IntersectionsFrom(i, x, y, x_new, y_new) ==
  IF i > NEdges THEN << >>
  ELSE IF EdgeHit(i, x, y, x_new, y_new)
       THEN LET tu == EdgeTU(i, x, y, x_new, y_new)
                b  == BiasVector(x, y, x_new, y_new)
            IN << << i, Minus(EdgeXInt(i, tu), b[1]), Minus(EdgeYInt(i, tu), b[2]) >> >>
                 \o IntersectionsFrom(i + 1, x, y, x_new, y_new)
       ELSE IntersectionsFrom(i + 1, x, y, x_new, y_new)

GetIntersections(x, y, x_new, y_new) == IntersectionsFrom(1, x, y, x_new, y_new)

(***************************************************************************)
(* Simulation._get_sorted_intersections: (edge, x_int, y_int, S), sorted  *)
(* by S when there are two or more (sorted() is stable).                   *)
(***************************************************************************)
compute_s(intersection, x, y) ==
  << intersection[1], intersection[2], intersection[3],
     Norm(Minus(intersection[2], x), Minus(intersection[3], y)) >>

\* [compute_s(intersection) for intersection in intersections]
RECURSIVE WithS(_, _, _)
WithS(intersections, x, y) ==
  IF intersections = << >> THEN << >>
  ELSE << compute_s(Head(intersections), x, y) >>
         \o WithS(Tail(intersections), x, y)

\* the place sorted(items, key=S) gives items[k]: after the items of a
\* smaller S and after the earlier items that are not of a greater S (the
\* sort is stable)
Place(items, k) ==
  1 + Cardinality({j \in 1..Len(items) :
                     \/ Lt(items[j][4], items[k][4])
                     \/ items[j][4] = items[k][4] /\ j < k})

\* sorted(intersections_with_S, key=lambda x: x[3])
SortedByS(items) ==
  [p \in 1..Len(items) |->
     items[CHOOSE k \in 1..Len(items) : Place(items, k) = p]]

\* (the one-element sets bind a value that is used more than once)
GetSortedIntersections(x, y, x_new, y_new) ==
  CHOOSE result \in
    {IF Len(intersections_with_S) < 2 THEN intersections_with_S
     ELSE SortedByS(intersections_with_S) :
       intersections_with_S \in
         {WithS(intersections, x, y) :
            intersections \in {GetIntersections(x, y, x_new, y_new)}}} : TRUE

(***************************************************************************)
(* Simulation._get_n_f_intersection:                                       *)
(* f = n_f[1] * (1 - sqrt(|int - start|**2 / |new - start|**2))            *)
(***************************************************************************)
GetNFIntersection(n_f, x, y, x_int, y_int, x_new, y_new) ==
  LET d_int == Norm(Minus(x_int, x), Minus(y_int, y))
      d_new == Norm(Minus(x_new, x), Minus(y_new, y))
  IN << n_f[1], Over(Times(n_f[2], Minus(d_new, d_int)), d_new) >>

(***************************************************************************)
(* Simulation._get_crosses: the auxiliary lines the full step crosses      *)
(***************************************************************************)
LineTU(i, x, y, x_new, y_new) ==
  get_ts_us(Neg(Minus(x_new, x)), Minus(x, Num(LinesPx0[i])), Num(LinesX23[i]),
            Neg(Minus(y_new, y)), Minus(y, Num(LinesPy0[i])), Num(LinesY23[i]))

\* a tally that, like the test of the frame's edges, takes only the lines
\* crossed against their normal
RECURSIVE CrossesAgainstNormalFrom(_, _, _, _, _)
CrossesAgainstNormalFrom(i, x, y, x_new, y_new) ==
  IF i > NLines THEN << >>
  ELSE IF /\ Crossing(LineTU(i, x, y, x_new, y_new))
          /\ Positive(Neg(Plus(Times(Minus(x_new, x), Num(OhmicLineEdges[i].normal[1])),
                               Times(Minus(y_new, y), Num(OhmicLineEdges[i].normal[2])))))
       THEN << NEdges + i >> \o CrossesAgainstNormalFrom(i + 1, x, y, x_new, y_new)
       ELSE CrossesAgainstNormalFrom(i + 1, x, y, x_new, y_new)

GetCrossesAgainstNormal(x, y, x_new, y_new) ==
  CrossesAgainstNormalFrom(1, x, y, x_new, y_new)

RECURSIVE CrossesFrom(_, _, _, _, _)
CrossesFrom(i, x, y, x_new, y_new) ==
  IF i > NLines THEN << >>
  ELSE IF Crossing(LineTU(i, x, y, x_new, y_new))
       THEN << NEdges + i >> \o CrossesFrom(i + 1, x, y, x_new, y_new)
       ELSE CrossesFrom(i + 1, x, y, x_new, y_new)

GetCrosses(x, y, x_new, y_new) == CrossesFrom(1, x, y, x_new, y_new)

(***************************************************************************)
(* What the environment's sampling operations can return                   *)
(***************************************************************************)
\* np.random.rand(): a numerator over PDen, in [0, 1)
Draws == 0..(PDen - 1)

\* a probability given to __init__: a numerator over PDen, in [0, 1]
Probabilities == 0..PDen

\* Edge.get_injection_index() and Edge.compute_injection_index(cum_prob):
\* a Fermi sample at the start of a bin
InjectionIndices == {<< i, Num(FDen) >> : i \in Bins}

\* the sign of a whole number
Sign(n) == IF n > 0 THEN 1 ELSE IF n < 0 THEN -1 ELSE 0

\* the points of edge e that Frame.get_inject_position can return: of the
\* points of the edge, its two end points and the lattice point before its
\* second end point
EdgePoints(e) ==
  LET x_start == FrameEdges[e].xs[1]
      y_start == FrameEdges[e].ys[1]
      x_end == FrameEdges[e].xs[2]
      y_end == FrameEdges[e].ys[2]
      x_dir == Sign(x_end - x_start)
      y_dir == Sign(y_end - y_start)
  IN {<< x_start, y_start >>, << x_end, y_end >>,
      << x_end - x_dir, y_end - y_dir >>}

\* Frame.get_inject_position(layer): a point of an edge of that layer and
\* the edge, as << x, y, edge >>
InjectPositions(layer) ==
  UNION {{<< Num(pt[1]), Num(pt[2]), e >> : pt \in EdgePoints(e)} :
           e \in {e2 \in 1..NEdges : Layer(e2) = layer}}

\* get_inject_position(layer) followed by get_injection_index() on the edge
\* it returned: << x, y, edge, n_f >>
Injections(layer) ==
  {<< ip[1], ip[2], ip[3], nf >> : ip \in InjectPositions(layer),
                                   nf \in InjectionIndices}

(***************************************************************************)
(* Simulation._calc_int_of_two_lines: the point where the line through     *)
(* p1 and p2 meets the line through p3 and p4, (nan, nan) when they are    *)
(* parallel                                                                *)
(***************************************************************************)
CalcIntOfTwoLines(p1, p2, p3, p4) ==
  LET x1 == p1[1]
      y1 == p1[2]
      x2 == p2[1]
      y2 == p2[2]
      x3 == p3[1]
      y3 == p3[2]
      x4 == p4[1]
      y4 == p4[2]
      denominator == Minus(Times(Minus(x1, x2), Minus(y3, y4)),
                           Times(Minus(y1, y2), Minus(x3, x4)))
      c12 == Minus(Times(x1, y2), Times(y1, x2))
      c34 == Minus(Times(x3, y4), Times(y3, x4))
  IN IF Differ(denominator, Zero)
     THEN << Over(Minus(Times(c12, Minus(x3, x4)), Times(Minus(x1, x2), c34)),
                  denominator),
             Over(Minus(Times(c12, Minus(y3, y4)), Times(Minus(y1, y2), c34)),
                  denominator) >>
     ELSE << NaN, NaN >>

(***************************************************************************)
(* Simulation._get_fermi_intersections and Simulation._specular, for a     *)
(* frame edge                                                              *)
(***************************************************************************)
\* line_x1, line_y1: the point of the Fermi surface that is the part
\* 1 - f of chord i from its start
FermiPoint(n_f) ==
  << Plus(Num(R[n_f[1] + 1][1]),
          Over(Times(Minus(Num(FDen), n_f[2]), Num(DR[n_f[1] + 1][1])), Num(FDen))),
     Plus(Num(R[n_f[1] + 1][2]),
          Over(Times(Minus(Num(FDen), n_f[2]), Num(DR[n_f[1] + 1][2])), Num(FDen))) >>

\* line_x2, line_y2: a second point of the line through the Fermi point
\* that has the slope of the edge (a whole slope, or float('inf'))
FermiLineEnd(line1, edge) ==
  LET xdel == FrameEdges[edge].xs[1] - FrameEdges[edge].xs[2]
      ydel == FrameEdges[edge].ys[1] - FrameEdges[edge].ys[2]
  IN IF xdel # 0
     THEN << Plus(line1[1], Num(100)),
             Plus(Times(Num(100), Over(Num(ydel), Num(xdel))), line1[2]) >>
     ELSE << line1[1], Plus(line1[2], Num(100)) >>

\* whether v lies between a and b, either way round
Between(a, v, b) == (Le(a, v) /\ Le(v, b)) \/ (Le(b, v) /\ Le(v, a))

\* the chords from segment_index on that the line meets, each with its
\* segment_factor, in the order of the chords
RECURSIVE FermiIntersectionsFrom(_, _, _)
FermiIntersectionsFrom(segment_index, line1, line2) ==
  IF segment_index >= NBins THEN << >>
  ELSE LET segment3 == << Num(R[segment_index + 1][1]), Num(R[segment_index + 1][2]) >>
           segment4 == << Plus(segment3[1], Num(DR[segment_index + 1][1])),
                          Plus(segment3[2], Num(DR[segment_index + 1][2])) >>
           int == CalcIntOfTwoLines(segment3, segment4, line1, line2)
           rest == FermiIntersectionsFrom(segment_index + 1, line1, line2)
       IN IF /\ ~IsNaN(int[1])
             /\ ~IsNaN(int[2])
             /\ Between(segment3[1], int[1], segment4[1])
             /\ Between(segment3[2], int[2], segment4[2])
          THEN << << segment_index,
                     Minus(Num(FDen),
                           Over(Times(Num(FDen), Minus(int[2], segment3[2])),
                                Minus(segment4[2], segment3[2]))) >> >> \o rest
          ELSE rest

GetFermiIntersections(n_f, edge) ==
  CHOOSE fermi_intersections \in
    {FermiIntersectionsFrom(0, line1, line2) :
       line1 \in {FermiPoint(n_f)},
       line2 \in {FermiLineEnd(FermiPoint(n_f), edge)}} : TRUE

\* this_distance, squared: from the Fermi point to the start of a chord
Distance2(line1, segment_index) ==
  Plus(Times(Minus(line1[1], Num(R[segment_index + 1][1])),
             Minus(line1[1], Num(R[segment_index + 1][1]))),
       Times(Minus(line1[2], Num(R[segment_index + 1][2])),
             Minus(line1[2], Num(R[segment_index + 1][2]))))

\* _specular(n_f, edge): of the chords of another bin that the line meets
\* the one that starts nearest to the Fermi point (the first of them when
\* several are as near); valid is FALSE when there is none and the
\* function raises
Specular(n_f, edge) ==
  CHOOSE result \in
    {LET others == {k \in 1..Len(fermi_intersections) :
                      fermi_intersections[k][1] # n_f[1]}
         nearer(k, j) ==
           \/ Lt(Distance2(line1, fermi_intersections[k][1]),
                 Distance2(line1, fermi_intersections[j][1]))
           \/ /\ ~Lt(Distance2(line1, fermi_intersections[j][1]),
                     Distance2(line1, fermi_intersections[k][1]))
              /\ k <= j
     IN IF others = {}
        THEN [valid |-> FALSE, reflected_state |-> << 0, Num(FDen) >>]
        ELSE [valid |-> TRUE,
              reflected_state |->
                fermi_intersections[CHOOSE k \in others :
                                      \A j \in others : nearer(k, j)]] :
       fermi_intersections \in {GetFermiIntersections(n_f, edge)},
       line1 \in {FermiPoint(n_f)}} : TRUE

(***************************************************************************)
(* Simulation._corner_specular, for two edges of the frame hit at the same *)
(* distance, that is, at a corner they share.  raised is "none" when the   *)
(* function returns.                                                       *)
(*   - When the two edges are parallel, denominator is 0 and the function  *)
(*     reads intersection_x unset (UnboundLocalError).                     *)
(*   - Otherwise the point where the edges' lines meet is their shared     *)
(*     corner, an end point of edge_0: distance_a or distance_b is 0 and   *)
(*     its proportion is 1000 / 0 = inf.  The shifts made with it are      *)
(*     0 * inf = nan or inf, the shifted points nan or inf, their          *)
(*     distances nan or inf, the median nan or inf and median_slope nan    *)
(*     (inf / inf included); the virtual edge has nan end points,          *)
(*     _get_fermi_intersections finds nothing on it and _specular raises   *)
(*     its Exception.                                                      *)
(***************************************************************************)
CornerDenominator(edge_0, edge_1) ==
  LET x1 == FrameEdges[edge_0].xs[1]
      y1 == FrameEdges[edge_0].ys[1]
      x2 == FrameEdges[edge_0].xs[2]
      y2 == FrameEdges[edge_0].ys[2]
      x3 == FrameEdges[edge_1].xs[1]
      y3 == FrameEdges[edge_1].ys[1]
      x4 == FrameEdges[edge_1].xs[2]
      y4 == FrameEdges[edge_1].ys[2]
  IN (x1 - x2) * (y3 - y4) - (y1 - y2) * (x3 - x4)

\* intersection_x, intersection_y: where the lines of the two edges meet
CornerIntersection(edge_0, edge_1) ==
  LET x1 == FrameEdges[edge_0].xs[1]
      y1 == FrameEdges[edge_0].ys[1]
      x2 == FrameEdges[edge_0].xs[2]
      y2 == FrameEdges[edge_0].ys[2]
      x3 == FrameEdges[edge_1].xs[1]
      y3 == FrameEdges[edge_1].ys[1]
      x4 == FrameEdges[edge_1].xs[2]
      y4 == FrameEdges[edge_1].ys[2]
      denominator == CornerDenominator(edge_0, edge_1)
  IN << Div((x1 * y2 - y1 * x2) * (x3 - x4) - (x1 - x2) * (x3 * y4 - y3 * x4),
            denominator),
        Div((x1 * y2 - y1 * x2) * (y3 - y4) - (y1 - y2) * (x3 * y4 - y3 * x4),
            denominator) >>

\* distance_a and distance_b, squared: from the end points of edge_0 to the
\* intersection
CornerDistances2(edge_0, edge_1) ==
  LET int == CornerIntersection(edge_0, edge_1)
      x1 == FrameEdges[edge_0].xs[1]
      y1 == FrameEdges[edge_0].ys[1]
      x2 == FrameEdges[edge_0].xs[2]
      y2 == FrameEdges[edge_0].ys[2]
  IN << (x1 - int[1]) * (x1 - int[1]) + (y1 - int[2]) * (y1 - int[2]),
        (x2 - int[1]) * (x2 - int[1]) + (y2 - int[2]) * (y2 - int[2]) >>

CornerSpecular(n_f, edge_0, edge_1) ==
  IF CornerDenominator(edge_0, edge_1) = 0
  THEN [raised |-> "UnboundLocalError", reflected_state |-> << 0, NaN >>]
  ELSE CHOOSE result \in
         {[raised |-> "Exception", reflected_state |-> << 0, NaN >>]} :
           \/ CornerDistances2(edge_0, edge_1)[1] = 0
           \/ CornerDistances2(edge_0, edge_1)[2] = 0

(***************************************************************************)
(* Simulation._step_position.                                              *)
(* inp is what the step reads from its environment:                        *)
(*   rand1, rand2  the first and second np.random.rand() of the step       *)
(*   scatter       what _scatter / _corner_scatter returns                 *)
(*   inject        what get_inject_position and get_injection_index       *)
(*                 return for a re-injection                               *)
(* The result is [raised, step_params, line_crosses, intersections]:      *)
(* raised is "none" when the function returns the pair, "single" when it   *)
(* returns the one-element list of the debug check, and the exception's    *)
(* name when it raises.                                                    *)
(***************************************************************************)
Returns(step_params, line_crosses, intersections) ==
  [raised |-> "none", step_params |-> step_params,
   line_crosses |-> line_crosses, intersections |-> intersections]

Raises(name, intersections) ==
  [raised |-> name, step_params |-> << >>, line_crosses |-> << >>,
   intersections |-> intersections]

\* a draw compared with <= instead of <
BernoulliInclusive(rand, p) == rand <= p

\* if np.random.rand() < p
Bernoulli(rand, p) == rand < p

\* the scatter or reflect waypoint after a collision with one edge
ScatterOrReflect(rand, p_s, n_f_int, edge, x_int, y_int, inp) ==
  IF Bernoulli(rand, p_s)
  THEN [raised |-> "none",
        wp |-> << inp.scatter, x_int, y_int, SCATTER, None >>]
  ELSE IF Specular(n_f_int, edge).valid
       THEN [raised |-> "none",
             wp |-> << Specular(n_f_int, edge).reflected_state, x_int, y_int,
                       REFLECT, None >>]
       ELSE [raised |-> "Exception", wp |-> << >>]

\* a corner branch that tags its second waypoint as the single-edge branch
\* does
CornerScatterOrReflectAsSingle(rand, p_s, n_f, edge_0, edge_1, x_int, y_int, inp) ==
  IF Bernoulli(rand, p_s)
  THEN [raised |-> "none",
        wp |-> << inp.scatter, x_int, y_int, SCATTER, None >>]
  ELSE IF CornerSpecular(n_f, edge_0, edge_1).raised = "none"
       THEN [raised |-> "none",
             wp |-> << CornerSpecular(n_f, edge_0, edge_1).reflected_state,
                       x_int, y_int, REFLECT, None >>]
       ELSE [raised |-> CornerSpecular(n_f, edge_0, edge_1).raised, wp |-> << >>]

\* the scatter or reflect waypoint after a corner collision
CornerScatterOrReflect(rand, p_s, n_f, edge_0, edge_1, x_int, y_int, inp) ==
  IF Bernoulli(rand, p_s)
  THEN [raised |-> "none",
        wp |-> << inp.scatter, x_int, y_int, CSCATTER, None >>]
  ELSE IF CornerSpecular(n_f, edge_0, edge_1).raised = "none"
       THEN [raised |-> "none",
             wp |-> << CornerSpecular(n_f, edge_0, edge_1).reflected_state,
                       x_int, y_int, CREFLECT, None >>]
       ELSE [raised |-> CornerSpecular(n_f, edge_0, edge_1).raised, wp |-> << >>]

\* a collision whose second waypoint carries the segment too
CollideTagged(first, second, line_crosses, intersections) ==
  IF second.raised = "none"
  THEN [raised |-> "none",
        step_params |-> << first, [second.wp EXCEPT ![5] = first[5]] >>,
        line_crosses |-> line_crosses, intersections |-> intersections]
  ELSE [raised |-> second.raised, step_params |-> << >>,
        line_crosses |-> << >>, intersections |-> intersections]

\* a collision record followed by scatter or reflect
Collide(first, second, line_crosses, intersections) ==
  IF second.raised = "none"
  THEN Returns(<< first, second.wp >>, line_crosses, intersections)
  ELSE Raises(second.raised, intersections)

\* a single-edge branch that takes every contact for the grounded one
SingleClassOneContact(layer) ==
  IF layer = 0 THEN "device" ELSE "grounded"

\* the class the single-edge branch gives a layer
SingleClass(layer) ==
  IF layer = 0 THEN "device"
  ELSE IF layer = 2 THEN "grounded"
  ELSE "generic"

\* a corner branch without the grounded case
CornerClassNoGrounded(layer) ==
  IF layer = 1 THEN "device" ELSE "generic"

\* the class the corner branch gives a layer
CornerClass(layer) ==
  IF layer = 1 THEN "device"
  ELSE IF layer = 2 THEN "grounded"
  ELSE "generic"

SingleEdge(n_f, x, y, x_new, y_new, p_s, p_a, inp, intersections, line_crosses) ==
  LET edge    == intersections[1][1]
      x_int   == intersections[1][2]
      y_int   == intersections[1][3]
      n_f_int == GetNFIntersection(n_f, x, y, x_int, y_int, x_new, y_new)
      class   == SingleClass(Layer(edge))
  IN IF class = "device"
     THEN Collide(<< n_f_int, x_int, y_int, COLLISION, edge >>,
                  ScatterOrReflect(inp.rand1, p_s, n_f_int, edge, x_int, y_int, inp),
                  line_crosses, intersections)
     ELSE IF class = "grounded"
     THEN IF Bernoulli(inp.rand1, p_a)
          THEN Returns(<< << n_f_int, x_int, y_int, ABSORBED, edge >> >>,
                       line_crosses, intersections)
          ELSE Collide(<< n_f_int, x_int, y_int, COLLISION, None >>,
                       ScatterOrReflect(inp.rand2, p_s, n_f_int, edge, x_int, y_int, inp),
                       line_crosses, intersections)
     ELSE IF Bernoulli(inp.rand1, p_a)
          THEN Returns(<< << n_f_int, x_int, y_int, ABSORBED, edge >>,
                          << inp.inject[4], inp.inject[1], inp.inject[2],
                             INJECTING, None >> >>,
                       line_crosses, intersections)
          ELSE Collide(<< n_f_int, x_int, y_int, COLLISION, None >>,
                       ScatterOrReflect(inp.rand2, p_s, n_f_int, edge, x_int, y_int, inp),
                       line_crosses, intersections)

\* an argmax that takes the last of the largest
ArgMaxLast(layer_0, layer_1) == IF layer_1 >= layer_0 THEN 1 ELSE 0

\* np.argmax([edge_0.layer, edge_1.layer]): the first of the largest
ArgMax(layer_0, layer_1) == IF layer_1 > layer_0 THEN 1 ELSE 0

Corner(n_f, x, y, x_new, y_new, p_s, p_a, inp, intersections, line_crosses) ==
  LET edge_0  == intersections[1][1]
      x_int   == intersections[1][2]
      y_int   == intersections[1][3]
      edge_1  == intersections[2][1]
      n_f_int == GetNFIntersection(n_f, x, y, x_int, y_int, x_new, y_new)
      index   == ArgMax(Layer(edge_0), Layer(edge_1))
      edge_for_count == IF index = 0 THEN edge_0 ELSE edge_1
      layer   == Layer(edge_for_count)
      class   == CornerClass(layer)
  IN IF class = "device"
     THEN Collide(<< n_f_int, x_int, y_int, CCOLLISION, edge_for_count >>,
                  CornerScatterOrReflect(inp.rand1, p_s, n_f, edge_0, edge_1,
                                         x_int, y_int, inp),
                  line_crosses, intersections)
     ELSE IF class = "grounded"
     THEN IF Bernoulli(inp.rand1, p_a)
          THEN Returns(<< << n_f_int, x_int, y_int, ABSORBED, edge_for_count >> >>,
                       line_crosses, intersections)
          ELSE Collide(<< n_f_int, x_int, y_int, CCOLLISION, None >>,
                       CornerScatterOrReflect(inp.rand2, p_s, n_f, edge_0, edge_1,
                                              x_int, y_int, inp),
                       line_crosses, intersections)
     ELSE IF Bernoulli(inp.rand1, p_a)
          THEN Returns(<< << n_f_int, x_int, y_int, CABSORBED, edge_for_count >>,
                          << inp.inject[4], inp.inject[1], inp.inject[2],
                             INJECTING, None >> >>,
                       line_crosses, intersections)
          ELSE Collide(<< n_f_int, x_int, y_int, CCOLLISION, None >>,
                       CornerScatterOrReflect(inp.rand2, p_s, n_f, edge_0, edge_1,
                                              x_int, y_int, inp),
                       line_crosses, intersections)

\* lines 150-155: the proposed step, the frame edges it hits and the
\* auxiliary lines it crosses
StepGeometry(n_f, x, y) ==
  LET new == UpdatePosition(n_f, x, y)
  IN [n_f_new |-> new[1], x_new |-> new[2], y_new |-> new[3],
      intersections |-> GetSortedIntersections(x, y, new[2], new[3]),
      line_crosses  |-> GetCrosses(x, y, new[2], new[3])]

\* lines 144-148 and 159-299: the branches, on the geometry of the step
StepBranches(n_f, x, y, dbg, p_s, p_a, inp, geo) ==
  IF dbg /\ ~InBody(x, y)
  THEN [raised |-> "single",
        step_params |-> << << n_f, x, y, ERROR, None >> >>,
        line_crosses |-> << >>, intersections |-> << >>]
  ELSE IF Len(geo.intersections) = 0
  THEN Returns(<< << geo.n_f_new, geo.x_new, geo.y_new, PROPAGATE, None >> >>,
               geo.line_crosses, geo.intersections)
  ELSE IF Len(geo.intersections) = 1
            \/ geo.intersections[1][4] # geo.intersections[2][4]
  THEN SingleEdge(n_f, x, y, geo.x_new, geo.y_new, p_s, p_a, inp,
                  geo.intersections, geo.line_crosses)
  ELSE Corner(n_f, x, y, geo.x_new, geo.y_new, p_s, p_a, inp,
              geo.intersections, geo.line_crosses)

StepPosition(n_f, x, y, dbg, p_s, p_a, inp) ==
  StepBranches(n_f, x, y, dbg, p_s, p_a, inp, StepGeometry(n_f, x, y))

\* a re-injection from the layer of the first injection
ReinjectionsFromFirstLayer(layer) == Injections(1)

\* lines 208-210 and 278-280: get_inject_position(layer) for the layer of
\* the absorbing segment, then get_injection_index() on the edge returned
Reinjections(layer) == Injections(layer)

(***************************************************************************)
(* The inputs a step can read: the draws and samples of the branch the     *)
(* step takes; what the branch does not read is held at a default.         *)
(***************************************************************************)
StepInputs(n_f, x, y, dbg, p_s, p_a, geo) ==
  LET ints   == geo.intersections
      hit    == ~(dbg /\ ~InBody(x, y)) /\ Len(ints) > 0
      corner == hit /\ Len(ints) > 1 /\ ints[1][4] = ints[2][4]
      layer  == IF ~hit THEN 0
                ELSE IF corner
                THEN Layer(ints[ArgMax(Layer(ints[1][1]), Layer(ints[2][1])) + 1][1])
                ELSE Layer(ints[1][1])
      class  == IF corner THEN CornerClass(layer) ELSE SingleClass(layer)
      absorbs(r1)      == hit /\ class # "device" /\ Bernoulli(r1, p_a)
      second(r1)       == hit /\ class # "device" /\ ~Bernoulli(r1, p_a)
      collides(r1)     == hit /\ ~absorbs(r1)
      scatters(r1, r2) == collides(r1)
                            /\ Bernoulli(IF second(r1) THEN r2 ELSE r1, p_s)
      none   == << 0, Num(FDen) >>
      Rand1  == IF hit THEN Draws ELSE {0}
      Rand2(r1) == IF second(r1) THEN Draws ELSE {0}
      Scatter(r1, r2) == IF scatters(r1, r2) THEN InjectionIndices ELSE {none}
      Inject(r1) == IF absorbs(r1) /\ class = "generic" THEN Reinjections(layer)
                    ELSE {<< Zero, Zero, None, none >>}
  IN UNION {UNION {
       {[rand1 |-> r1, rand2 |-> r2, scatter |-> sc, inject |-> inj] :
           sc \in Scatter(r1, r2), inj \in Inject(r1)} :
       r2 \in Rand2(r1)} : r1 \in Rand1}

(***************************************************************************)
(* What a step reads from the np.random stream, in the order of the code:  *)
(* the np.random.rand() of the branch's first test; after an absorption on *)
(* a generic contact the position and the Fermi sample of the              *)
(* re-injection; after a contact hit that is not absorbed the second       *)
(* np.random.rand(); after a draw below p_scatter the scattered Fermi      *)
(* sample.  A step that hits nothing, and one the debug check ends, read   *)
(* nothing.                                                                *)
(***************************************************************************)
StepReads(n_f, x, y, dbg, p_s, p_a, geo, inp) ==
  LET ints   == geo.intersections
      hit    == ~(dbg /\ ~InBody(x, y)) /\ Len(ints) > 0
      corner == hit /\ Len(ints) > 1 /\ ints[1][4] = ints[2][4]
      layer  == IF ~hit THEN 0
                ELSE IF corner
                THEN Layer(ints[ArgMax(Layer(ints[1][1]), Layer(ints[2][1])) + 1][1])
                ELSE Layer(ints[1][1])
      class  == IF corner THEN CornerClass(layer) ELSE SingleClass(layer)
      absorbs  == class # "device" /\ Bernoulli(inp.rand1, p_a)
      second   == class # "device" /\ ~Bernoulli(inp.rand1, p_a)
      scatters == ~absorbs
                    /\ Bernoulli(IF second THEN inp.rand2 ELSE inp.rand1, p_s)
  IN IF ~hit THEN << >>
     ELSE << << "rand", inp.rand1 >> >>
          \o (IF absorbs /\ class = "generic"
              THEN << << "position", << inp.inject[1], inp.inject[2], inp.inject[3] >> >>,
                      << "index", inp.inject[4] >> >>
              ELSE << >>)
          \o (IF second THEN << << "rand", inp.rand2 >> >> ELSE << >>)
          \o (IF scatters THEN << << "index", inp.scatter >> >> ELSE << >>)

\* lines 110-111: an injection reads a position and a Fermi sample
InjectReads(inp) ==
  << << "position", << inp.inject[1], inp.inject[2], inp.inject[3] >> >>,
     << "index", inp.inject[4] >> >>

(***************************************************************************)
(* Bounds of the model                                                     *)
(***************************************************************************)
\* the largest n_inject
MaxInject == 2
\* the most waypoints generated in one run
MaxWaypoints == 6
\* the most hits and line crossings counted in one call
MaxCount == 4
\* the most values that a caller of two Simulations is followed to take
\* from the streams
MaxReads == 9

(***************************************************************************)
(* The state of a call of Simulation.run_simulation, and of the caller     *)
(* that builds and runs one Simulation, or two in a row                    *)
(***************************************************************************)
VARIABLES
  p_scatter,        \* self._p_scatter, over PDen
  p_ohmic_absorb,   \* self._p_ohmic_absorb, over PDen
  n_inject,         \* the argument n_inject
  stored_states,    \* the argument stored_states
  debug,            \* the argument debug
  pc,               \* "for": at line 107; "while": at line 119;
                    \* "returned": after line 141; "raised": an exception left the call
  raised,           \* the exception that left the call, or "none"
  trajectories,     \* the list trajectories
  edge_to_count,    \* the dict edge_to_count
  trajectory,       \* the list trajectory
  state,            \* the local state
  step_params,      \* the local step_params
  line_crosses,     \* the local line_crosses
  intersections,    \* the sorted intersections of the trajectory's last
                    \* _step_position; empty before its first
  track,            \* whether generated is kept
  generated,        \* every waypoint generated in the call, in order; each
                    \* trajectory's first is its injection waypoint
  run,              \* 0: the caller runs one Simulation; 1, 2: the first and
                    \* the second of two Simulations of the same configuration
  seed,             \* the seed the caller gave np.random.seed last
  reseeded,         \* the caller called np.random.seed between the two
                    \* Simulations
  tape,             \* the stream of the seed, as far as it has been read
  pos,              \* the number of reads of the stream since it was seeded
  other,            \* the number of values that the streams of other seeds
                    \* gave before
  first             \* the seed of the first Simulation and what it returned

vars == << p_scatter, p_ohmic_absorb, n_inject, stored_states, debug, pc, raised,
           trajectories, edge_to_count, trajectory, state, step_params,
           line_crosses, intersections, track, generated, run, seed, reseeded,
           tape, pos, other, first >>

config == << p_scatter, p_ohmic_absorb, n_inject, stored_states, debug, track >>

caller == << run, seed, reseeded, other, first >>

\* the seeds the caller can give np.random.seed
Seeds == 1..2

\* the values of stored_states the model is run for
StoredStates == {ALL_STATES, {INJECTING, ABSORBED, CABSORBED}, {}}

\* filter(lambda step: step[-2] in stored_states, step_params)
Stored(params, stored) == SelectSeq(params, LAMBDA step : step[4] \in stored)

\* counters that a call finds as the call before it left them
KeptCounts ==
  IF pc = "returned" THEN edge_to_count ELSE [k \in EdgeKeys \cup LineKeys |-> 0]

\* lines 100-105: a zero counter for every edge and every line
ZeroCounts == [k \in EdgeKeys \cup LineKeys |-> 0]

\* a count of the last waypoint's edge only
CountEdgesLast(counts, params) ==
  IF params = << >> THEN counts
  ELSE LET edge == params[Len(params)][5]
       IN IF edge \in DOMAIN counts
          THEN [counts EXCEPT ![edge] = @ + 1]
          ELSE counts

\* lines 131-134: for step_param in step_params: count its edge
RECURSIVE CountEdges(_, _)
CountEdges(counts, params) ==
  IF params = << >> THEN counts
  ELSE LET edge == Head(params)[5]
       IN CountEdges(IF edge \in DOMAIN counts
                     THEN [counts EXCEPT ![edge] = @ + 1]
                     ELSE counts,
                     Tail(params))

\* lines 136-137: for line in line_crosses: count it
RECURSIVE CountLines(_, _)
CountLines(counts, lines) ==
  IF lines = << >> THEN counts
  ELSE CountLines([counts EXCEPT ![Head(lines)] = @ + 1], Tail(lines))

\* the guard of the while loop, line 119
Looping(st) == st # ABSORBED

\* the inputs of a step that reads nothing
NoInput ==
  [rand1 |-> 0, rand2 |-> 0, scatter |-> << 0, Num(FDen) >>,
   inject |-> << Zero, Zero, None, << 0, Num(FDen) >> >>]

InitRun ==
  /\ p_scatter \in Probabilities
  /\ p_ohmic_absorb \in Probabilities
  /\ n_inject \in 1..MaxInject
  /\ stored_states \in StoredStates
  /\ debug \in BOOLEAN
  /\ pc = "for"
  /\ raised = "none"
  /\ trajectories = << >>
  /\ edge_to_count = ZeroCounts
  /\ trajectory = << >>
  /\ state = INJECTING
  /\ step_params = << >>
  /\ line_crosses = << >>
  /\ intersections = << >>
  /\ generated = << >>
  /\ seed = 1
  /\ reseeded = FALSE
  /\ tape = << >>
  /\ pos = 0
  /\ other = 0
  /\ first = [seed |-> seed, edge_to_count |-> ZeroCounts, trajectories |-> << >>]

Init == InitRun /\ track = TRUE /\ run = 0

\* the sum of the counts of the keys 1..n
RECURSIVE Total(_, _)
Total(counts, n) ==
  IF n = 0 THEN 0 ELSE counts[n] + Total(counts, n - 1)

\* the bounds: the call is followed while what it has generated, the
\* trajectory it has recorded and its counts stay within them
WithinBounds(waypoints, recorded, counts) ==
  /\ Len(waypoints) <= MaxWaypoints
  /\ Len(recorded) <= MaxWaypoints
  /\ Total(counts, NEdges + NLines) <= MaxCount

Record(params) == IF track THEN generated \o params ELSE generated

\* the caller follows the stream: it runs two Simulations
Recording == run # 0

\* the reads, made next, return what the stream holds at their places, kind
\* by kind and value by value, as far as the stream has been read before
Fits(reads) ==
  \A k \in 1..Len(reads) : pos + k <= Len(tape) => tape[pos + k] = reads[k]

\* the inputs the stream can give the next injection or step, reads[inp]
\* being the reads that take inp from it: where the stream has been read
\* before, what it gave then; any value where it has not, and where it gave
\* a read of another kind
Stream(inputs, reads) ==
  IF Recording /\ pos < Len(tape) /\ \E inp \in inputs : Fits(reads[inp])
  THEN {inp \in inputs : Fits(reads[inp])}
  ELSE inputs

\* the stream after the reads
Taped(reads) ==
  IF Recording /\ pos + Len(reads) > Len(tape)
  THEN SubSeq(tape, 1, pos) \o reads
  ELSE tape

\* the position in the stream after the reads
Read(reads) == IF Recording THEN pos + Len(reads) ELSE pos

\* lines 107-117: the next particle is injected from a layer 1 edge
Inject ==
  /\ pc = "for"
  /\ Len(trajectories) < n_inject
  /\ \E inputs \in {{[NoInput EXCEPT !.inject = inj] : inj \in Injections(1)}} :
     \E inp \in Stream(inputs, [i \in inputs |-> InjectReads(i)]) :
       LET inj == inp.inject
           first_params == << << inj[4], inj[1], inj[2], INJECTING, inj[3] >> >>
       IN /\ WithinBounds(Record(first_params),
                          Stored(first_params, stored_states), edge_to_count)
          /\ state' = INJECTING
          /\ step_params' = first_params
          /\ trajectory' = Stored(first_params, stored_states)
          /\ generated' = Record(first_params)
          /\ tape' = Taped(InjectReads(inp))
          /\ pos' = Read(InjectReads(inp))
          /\ other + Len(tape') <= MaxReads
  /\ pc' = "while"
  /\ intersections' = << >>
  /\ UNCHANGED << config, caller, raised, trajectories, edge_to_count,
                  line_crosses >>

\* a loop that continues from the last waypoint that was stored
LastStored ==
  IF trajectory = << >> THEN step_params[Len(step_params)]
  ELSE trajectory[Len(trajectory)]

\* the last waypoint, from which lines 120-122 take n_f, x and y
Last == step_params[Len(step_params)]

\* lines 119-137: one pass of the while loop in which _step_position returns
\* its pair
Step ==
  /\ pc = "while"
  /\ Looping(state)
  /\ \E geo \in {StepGeometry(Last[1], Last[2], Last[3])} :
       \E inputs \in {StepInputs(Last[1], Last[2], Last[3], debug, p_scatter,
                                  p_ohmic_absorb, geo)} :
       \E inp \in Stream(inputs,
                        [i \in inputs |-> StepReads(Last[1], Last[2], Last[3], debug,
                                                    p_scatter, p_ohmic_absorb, geo, i)]) :
         \E r \in {StepBranches(Last[1], Last[2], Last[3], debug, p_scatter,
                                p_ohmic_absorb, inp, geo)} :
           \E counts \in {CountLines(CountEdges(edge_to_count, r.step_params),
                                     r.line_crosses)} :
             /\ r.raised = "none"
             /\ WithinBounds(Record(r.step_params),
                             trajectory \o Stored(r.step_params, stored_states),
                             counts)
             /\ step_params' = r.step_params
             /\ line_crosses' = r.line_crosses
             /\ intersections' = r.intersections
             /\ state' = r.step_params[Len(r.step_params)][4]
             /\ trajectory' = trajectory \o Stored(r.step_params, stored_states)
             /\ edge_to_count' = counts
             /\ generated' = Record(r.step_params)
             /\ tape' = Taped(StepReads(Last[1], Last[2], Last[3], debug,
                                         p_scatter, p_ohmic_absorb, geo, inp))
             /\ pos' = Read(StepReads(Last[1], Last[2], Last[3], debug,
                                      p_scatter, p_ohmic_absorb, geo, inp))
             /\ other + Len(tape') <= MaxReads
  /\ UNCHANGED << config, caller, pc, raised, trajectories >>

\* lines 119-124: a pass of the while loop that an exception leaves: the
\* debug check's one-element list does not unpack into the pair of line 123
\* (ValueError), or _specular or _corner_specular raises
StepRaises ==
  /\ pc = "while"
  /\ Looping(state)
  /\ \E geo \in {StepGeometry(Last[1], Last[2], Last[3])} :
       \E inputs \in {StepInputs(Last[1], Last[2], Last[3], debug, p_scatter,
                                  p_ohmic_absorb, geo)} :
       \E inp \in Stream(inputs,
                        [i \in inputs |-> StepReads(Last[1], Last[2], Last[3], debug,
                                                    p_scatter, p_ohmic_absorb, geo, i)]) :
         \E r \in {StepBranches(Last[1], Last[2], Last[3], debug, p_scatter,
                                p_ohmic_absorb, inp, geo)} :
           /\ r.raised # "none"
           /\ raised' = IF r.raised = "single" THEN "ValueError" ELSE r.raised
           /\ intersections' = r.intersections
           /\ tape' = Taped(StepReads(Last[1], Last[2], Last[3], debug,
                                       p_scatter, p_ohmic_absorb, geo, inp))
           /\ pos' = Read(StepReads(Last[1], Last[2], Last[3], debug,
                                    p_scatter, p_ohmic_absorb, geo, inp))
           /\ other + Len(tape') <= MaxReads
  /\ pc' = "raised"
  /\ UNCHANGED << config, caller, trajectories, edge_to_count, trajectory, state,
                  step_params, line_crosses, generated >>

\* lines 119 and 139: the loop ends and the trajectory is appended
EndTrajectory ==
  /\ pc = "while"
  /\ ~Looping(state)
  /\ trajectories' = Append(trajectories, trajectory)
  /\ pc' = "for"
  /\ UNCHANGED << config, caller, tape, pos, raised, edge_to_count, trajectory, state,
                  step_params, line_crosses, intersections, generated >>

\* lines 107 and 141: every particle was injected
Return ==
  /\ pc = "for"
  /\ Len(trajectories) = n_inject
  /\ pc' = "returned"
  /\ UNCHANGED << config, caller, tape, pos, raised, trajectories, edge_to_count,
                  trajectory, state, step_params, line_crosses, intersections,
                  generated >>

Next == Inject \/ Step \/ StepRaises \/ EndTrajectory \/ Return

Spec == Init /\ [][Next]_vars

(***************************************************************************)
(* The call without the record of generated waypoints and with nothing     *)
(* stored (stored_states does not change what a call does), under the      *)
(* scheduling of a running interpreter: a call that can take a step takes  *)
(* one.                                                                    *)
(***************************************************************************)
InitFair ==
  /\ InitRun
  /\ track = FALSE
  /\ run = 0
  /\ p_ohmic_absorb = PDen
  /\ n_inject = 1
  /\ stored_states = {}
  /\ ~debug

FairSpec == InitFair /\ [][Next]_vars /\ WF_vars(Next)

(***************************************************************************)
(* Two Simulations in a row, built with the same arguments and run with    *)
(* the same arguments, in a process whose caller gave np.random.seed a     *)
(* seed before the first.  __init__ (lines 50-76) and run_simulation       *)
(* (lines 94-141) only read the process-wide stream and never seed it, so  *)
(* where the second Simulation starts to read is the caller's doing: when  *)
(* the caller gives np.random.seed the same seed again the second reads    *)
(* the stream of the first from its start; when the caller gives it        *)
(* another seed the second reads another stream; and when the caller does  *)
(* not call it the second reads on where the first stopped.                *)
(***************************************************************************)
\* the first Simulation returned; the caller builds the second with the same
\* arguments (lines 50-76) and calls run_simulation with the same arguments:
\* lines 98-105 start from an empty list and zero counters
SecondSimulation ==
  /\ run = 1
  /\ pc = "returned"
  /\ run' = 2
  /\ reseeded' \in BOOLEAN
  /\ seed' \in (IF reseeded' THEN Seeds ELSE {seed})
  /\ first' = [seed |-> seed, edge_to_count |-> edge_to_count,
               trajectories |-> trajectories]
  /\ tape' = IF seed' = seed THEN tape ELSE << >>
  /\ pos' = IF reseeded' THEN 0 ELSE pos
  /\ other' = IF seed' = seed THEN other ELSE other + Len(tape)
  /\ pc' = "for"
  /\ trajectories' = << >>
  /\ edge_to_count' = ZeroCounts
  /\ trajectory' = << >>
  /\ state' = INJECTING
  /\ step_params' = << >>
  /\ line_crosses' = << >>
  /\ intersections' = << >>
  /\ generated' = << >>
  /\ UNCHANGED << config, raised >>

InitPair ==
  InitRun /\ track = TRUE /\ run = 1 /\ ~debug /\ stored_states = ALL_STATES

PairNext == Next \/ SecondSimulation

PairSpec == InitPair /\ [][PairNext]_vars

(***************************************************************************)
(* Reading a step's hit off the state                                      *)
(***************************************************************************)
\* the step of the current trajectory that came last hit the frame
HasHit == pc = "while" /\ Len(intersections) > 0

\* the two nearest intersections are equally far: a corner hit
IsCornerHit == Len(intersections) > 1 /\ intersections[1][4] = intersections[2][4]

\* the segment a hit is booked on: the edge hit, or of the two edges of a
\* corner the one of the higher layer (the first when the layers are equal)
HitSegment ==
  IF IsCornerHit /\ Layer(intersections[2][1]) > Layer(intersections[1][1])
  THEN intersections[2][1]
  ELSE intersections[1][1]

\* waypoint w records an absorption
IsAbsorption(w) == w[4] \in {ABSORBED, CABSORBED}

\* waypoint w carries a segment of the grounded layer
OnGrounded(w) == w[5] \in EdgeKeys /\ Layer(w[5]) = 2

(***************************************************************************)
(* C1: the while loop of a trajectory ends exactly on an absorption on a   *)
(* grounded (layer 2) segment.  In every reachable state: the loop guard   *)
(* is false iff the last waypoint is ABSORBED on a layer 2 segment; every  *)
(* absorption on a segment of another layer is at once followed by an      *)
(* INJECTING waypoint without a segment (the loop goes on); an absorption  *)
(* on a layer 2 segment is the last waypoint of its trajectory; and a     *)
(* trajectory that was appended ended on such an absorption.               *)
(***************************************************************************)
C1_EndsOnGrounded ==
  /\ pc = "while" =>
       (~Looping(state) <=> (Last[4] = ABSORBED /\ OnGrounded(Last)))
  /\ \A i \in 1..Len(generated) :
       IsAbsorption(generated[i]) =>
         IF OnGrounded(generated[i])
         THEN /\ generated[i][4] = ABSORBED
              /\ i < Len(generated) =>
                   generated[i + 1][4] = INJECTING /\ generated[i + 1][5] # None
         ELSE /\ i < Len(generated)
              /\ generated[i + 1][4] = INJECTING
              /\ generated[i + 1][5] = None
  /\ (pc \in {"for", "returned"} /\ Len(trajectories) > 0) =>
       /\ generated[Len(generated)][4] = ABSORBED
       /\ OnGrounded(generated[Len(generated)])

\* a trajectory ended on the grounded segment and another was absorbed on a
\* floating contact and injected again
C1_Witness ==
  /\ Len(trajectories) > 0
  /\ \E i \in 1..(Len(generated) - 1) :
       /\ IsAbsorption(generated[i])
       /\ ~OnGrounded(generated[i])
       /\ generated[i + 1][4] = INJECTING

(***************************************************************************)
(* C2: with p_ohmic_absorb = 1 the counters of the grounded (layer 2)      *)
(* segments sum to the number of trajectories that reached their           *)
(* absorption: to the appended trajectories, plus one while the loop of    *)
(* the current one has just ended; and to n_inject when the call returns.  *)
(***************************************************************************)
RECURSIVE SumCounts(_)
SumCounts(keys) ==
  IF keys = {} THEN 0
  ELSE LET k == CHOOSE k2 \in keys : TRUE
       IN edge_to_count[k] + SumCounts(keys \ {k})

GroundedSegments == {e \in EdgeKeys : Layer(e) = 2}

C2_GroundedCount ==
  p_ohmic_absorb = PDen =>
    /\ SumCounts(GroundedSegments)
         = Len(trajectories) + (IF pc = "while" /\ ~Looping(state) THEN 1 ELSE 0)
    /\ pc = "returned" => SumCounts(GroundedSegments) = n_inject

\* two particles were injected and absorbed with certainty, after more than
\* their two injections and two absorptions
C2_Witness ==
  /\ pc = "returned"
  /\ p_ohmic_absorb = PDen
  /\ n_inject = 2
  /\ Len(generated) > 4

(***************************************************************************)
(* C3: a corner hit is classified by the higher layer of its two segments  *)
(* as a single-segment hit on that layer is: on layer 0 the step records   *)
(* a collision and neither an absorption nor a re-injection; on a layer    *)
(* other than 0 and 2 the hit is absorbed, when absorption is certain,     *)
(* and the particle is injected again.                                     *)
(***************************************************************************)
C3_CornerAsSingle ==
  (HasHit /\ IsCornerHit) =>
    /\ Layer(HitSegment) = 0 =>
         /\ step_params[1][4] = CCOLLISION
         /\ state \in {CSCATTER, CREFLECT}
    /\ (Layer(HitSegment) \notin {0, 2} /\ p_ohmic_absorb = PDen) =>
         /\ step_params[1][4] = CABSORBED
         /\ state = INJECTING

(***************************************************************************)
(* C4: in debug mode a step that starts outside the device does not make   *)
(* run_simulation raise.                                                   *)
(***************************************************************************)
C4_NoRaiseOutside ==
  (debug /\ Len(step_params) > 0 /\ ~InBody(Last[2], Last[3])) => pc # "raised"

(***************************************************************************)
(* C5, as claimed: after a hit the first waypoint of the step carries the  *)
(* hit segment and every later waypoint carries none.                      *)
(***************************************************************************)
C5_FirstCarriesSegment ==
  HasHit =>
    /\ step_params[1][5] = HitSegment
    /\ \A i \in 2..Len(step_params) : step_params[i][5] = None

(***************************************************************************)
(* C5, amended: after a hit every waypoint of the step but the first       *)
(* carries no segment.  The first carries the hit segment when it is an    *)
(* absorption record (ABSORBED or CABSORBED), when it is the COLLISION     *)
(* record of a single-segment hit on a layer 0 segment, and when it is the *)
(* CCOLLISION record of a corner hit whose segment is of layer 1; in every *)
(* other case (the collision record of a hit that was not absorbed: of a   *)
(* single-segment hit on a segment of layer 1 or higher, of a corner hit   *)
(* whose segment is of layer 0 or of layer 2 or higher) it carries none.   *)
(***************************************************************************)
C5_FirstCarriesUnlessBounced ==
  HasHit =>
    /\ \A i \in 2..Len(step_params) : step_params[i][5] = None
    /\ step_params[1][4] \in {ABSORBED, CABSORBED, COLLISION, CCOLLISION}
    /\ step_params[1][5]
         = IF \/ IsAbsorption(step_params[1])
              \/ ~IsCornerHit /\ Layer(HitSegment) = 0
              \/ IsCornerHit /\ Layer(HitSegment) = 1
           THEN HitSegment
           ELSE None

\* a hit on a contact that was not absorbed: a collision record without a
\* segment, followed by a scatter or a reflection
C5_Witness ==
  /\ HasHit
  /\ Layer(HitSegment) >= 2
  /\ step_params[1][4] \in {COLLISION, CCOLLISION}
  /\ step_params[1][5] = None
  /\ Len(step_params) = 2

(***************************************************************************)
(* C6, as claimed: when the call returns, a segment's count is the number  *)
(* of waypoints generated in the call that carry it, the injection         *)
(* waypoints included.                                                     *)
(***************************************************************************)
Carriers(k) == {i \in 1..Len(generated) : generated[i][5] = k}

C6_CountsEveryWaypoint ==
  pc = "returned" =>
    \A k \in EdgeKeys : edge_to_count[k] = Cardinality(Carriers(k))

(***************************************************************************)
(* C6, amended: every counter is zero before the first injection, and at   *)
(* every point of the call a segment's count is the number of waypoints    *)
(* generated so far that carry it and are not the injection waypoint that  *)
(* starts a trajectory: the injection waypoint carries the injecting edge  *)
(* but is never counted.                                                   *)
(***************************************************************************)
C6_CountsStepWaypoints ==
  /\ generated = << >> => \A k \in EdgeKeys \cup LineKeys : edge_to_count[k] = 0
  /\ \A k \in EdgeKeys :
       edge_to_count[k]
         = Cardinality({i \in Carriers(k) : generated[i][4] # INJECTING})

\* the call returned with a segment counted and an injecting edge that was
\* carried by an injection waypoint and never counted
C6_Witness ==
  /\ pc = "returned"
  /\ \E k \in EdgeKeys : edge_to_count[k] > 0
  /\ \E k \in EdgeKeys : edge_to_count[k] < Cardinality(Carriers(k))

(***************************************************************************)
(* C8: a single-segment hit on a device-boundary (layer 0) segment yields  *)
(* COLLISION then SCATTER when p_scatter = 1 and COLLISION then REFLECT    *)
(* when p_scatter = 0, whatever the draw; and with p_scatter = 1 such a    *)
(* hit never fails for want of a reflection.                               *)
(***************************************************************************)
IsDeviceHit ==
  /\ Len(intersections) > 0
  /\ ~IsCornerHit
  /\ Layer(intersections[1][1]) = 0

C8_ScatterOrReflectCertain ==
  /\ (HasHit /\ IsDeviceHit) =>
       /\ Len(step_params) = 2
       /\ step_params[1][4] = COLLISION
       /\ p_scatter = PDen => step_params[2][4] = SCATTER
       /\ p_scatter = 0 => step_params[2][4] = REFLECT
  /\ (pc = "raised" /\ IsDeviceHit /\ p_scatter = PDen) => raised = "none"

\* a device-boundary hit that reflected because p_scatter = 0
C8_Witness ==
  /\ HasHit
  /\ IsDeviceHit
  /\ p_scatter = 0
  /\ state = REFLECT

(***************************************************************************)
(* C9: stored_states changes only what is recorded.  The recorded          *)
(* waypoints (the appended trajectories and then the current one) are      *)
(* the generated waypoints whose state is in stored_states, in order;      *)
(* the loop runs on the generated waypoints, stored or not: its state is   *)
(* the state of the last one, a propagation starts where the last one      *)
(* left the particle, and the counts are counts of generated waypoints.    *)
(***************************************************************************)
RECURSIVE Flatten(_)
Flatten(lists) ==
  IF lists = << >> THEN << >> ELSE Head(lists) \o Flatten(Tail(lists))

Recorded ==
  Flatten(trajectories) \o (IF pc \in {"while", "raised"} THEN trajectory ELSE << >>)

C9_StoredStatesOnlyRecords ==
  /\ Recorded = SelectSeq(generated, LAMBDA w : w[4] \in stored_states)
  /\ pc = "while" => state = generated[Len(generated)][4]
  /\ \A i \in 2..Len(generated) :
       generated[i][4] = PROPAGATE =>
         << generated[i][1], generated[i][2], generated[i][3] >>
           = UpdatePosition(generated[i - 1][1], generated[i - 1][2],
                            generated[i - 1][3])
  /\ \A k \in EdgeKeys :
       edge_to_count[k]
         = Cardinality({i \in 1..Len(generated) :
                          generated[i][5] = k /\ generated[i][4] # INJECTING})

\* a call that stored only injections and absorptions returned after
\* propagating and colliding
C9_Witness ==
  /\ pc = "returned"
  /\ stored_states = {INJECTING, ABSORBED, CABSORBED}
  /\ \E i \in 1..Len(generated) : generated[i][4] = PROPAGATE
  /\ \E i \in 1..Len(generated) : generated[i][4] \in {COLLISION, CCOLLISION}
  /\ Len(Recorded) < Len(generated)

(***************************************************************************)
(* C10, as claimed: two Simulations of the same configuration that run     *)
(* under the same seed return the same counters and the same trajectories, *)
(* each Simulation seeding the stream itself before it steps: whether or   *)
(* not the caller seeds the stream again between them.                     *)
(***************************************************************************)
SameAsFirst ==
  /\ edge_to_count = first.edge_to_count
  /\ trajectories = first.trajectories

InDevice ==
  /\ Len(step_params) > 0
  /\ InBody(step_params[Len(step_params)][2], step_params[Len(step_params)][3])

C7_LoopExits ==
  (pc = "while" /\ p_ohmic_absorb = PDen /\ InDevice)
    ~> (pc # "while" \/ ~InDevice \/ ~ENABLED Next)

(***************************************************************************)
(* C11: the complete waypoint sequence of a trajectory (the recorded one   *)
(* when every state is stored) starts with INJECTING; every COLLISION is   *)
(* at once followed by SCATTER or REFLECT and every CCOLLISION by CSCATTER *)
(* or CREFLECT, and these four occur nowhere else; every later INJECTING   *)
(* comes right after an absorption; and an absorption is the last waypoint *)
(* or is at once followed by INJECTING.                                    *)
(***************************************************************************)
WellFormed(t) ==
  /\ Len(t) > 0 => t[1][4] = INJECTING
  /\ \A i \in 1..Len(t) :
       /\ t[i][4] = COLLISION =>
            i < Len(t) /\ t[i + 1][4] \in {SCATTER, REFLECT}
       /\ t[i][4] = CCOLLISION =>
            i < Len(t) /\ t[i + 1][4] \in {CSCATTER, CREFLECT}
       /\ t[i][4] \in {SCATTER, REFLECT} => i > 1 /\ t[i - 1][4] = COLLISION
       /\ t[i][4] \in {CSCATTER, CREFLECT} => i > 1 /\ t[i - 1][4] = CCOLLISION
       /\ (i > 1 /\ t[i][4] = INJECTING) => IsAbsorption(t[i - 1])
       /\ IsAbsorption(t[i]) => (i = Len(t) \/ t[i + 1][4] = INJECTING)

C11_WaypointOrder ==
  stored_states = ALL_STATES =>
    /\ \A j \in 1..Len(trajectories) :
         /\ WellFormed(trajectories[j])
         /\ Len(trajectories[j]) > 0
         /\ IsAbsorption(trajectories[j][Len(trajectories[j])])
    /\ pc \in {"while", "raised"} => Len(trajectory) > 0 /\ WellFormed(trajectory)

\* a trajectory of which every waypoint is recorded holds a collision with
\* its scatter or reflection and an absorption followed by a re-injection
C11_Witness ==
  /\ pc = "while"
  /\ stored_states = ALL_STATES
  /\ \E i \in 1..Len(trajectory) : trajectory[i][4] \in {COLLISION, CCOLLISION}
  /\ \E i \in 2..Len(trajectory) : trajectory[i][4] = INJECTING

(***************************************************************************)
(* C12: a step that ends on a corner hit changes the counter of at most    *)
(* one of the frame's segments, by exactly one: the counter of the one of  *)
(* the two corner segments that has the higher layer (the first in the     *)
(* sorted order when the layers are equal), and only when the step's       *)
(* first waypoint carries a segment; the counter of the other corner       *)
(* segment, and of every other segment, is unchanged.                      *)
(***************************************************************************)
C12_CornerCountsOne ==
  [][(pc = "while" /\ generated' # generated /\ HasHit' /\ IsCornerHit') =>
       \A k \in EdgeKeys :
         edge_to_count'[k]
           = edge_to_count[k]
               + (IF k = HitSegment' /\ step_params'[1][5] # None THEN 1 ELSE 0)]_vars

\* a corner hit whose second segment has the higher layer was counted on
\* that segment and not on the first
C12_Witness ==
  /\ HasHit
  /\ IsCornerHit
  /\ Layer(intersections[2][1]) > Layer(intersections[1][1])
  /\ step_params[1][5] = intersections[2][1]
  /\ edge_to_count[intersections[2][1]] = 1
  /\ edge_to_count[intersections[1][1]] = 0

(***************************************************************************)
(* C13: every step starts from the n_f and the position of the waypoint    *)
(* generated last, stored or not: a PROPAGATE waypoint is that waypoint    *)
(* advanced by _update_position, and the first waypoint of a hit lies on   *)
(* the chord of that waypoint's bin, a part g of the chord from its        *)
(* position, with the rest of the chord left in its n_f.  A re-injection   *)
(* waypoint comes right after an absorption that carries a segment, lies   *)
(* on an edge of that segment's layer and has a Fermi sample of the        *)
(* injection distribution.                                                 *)
(***************************************************************************)
\* the point (x, y) lies on frame edge e
OnEdge(e, x, y) ==
  LET x1 == FrameEdges[e].xs[1]
      y1 == FrameEdges[e].ys[1]
      x2 == FrameEdges[e].xs[2]
      y2 == FrameEdges[e].ys[2]
  IN /\ Times(Minus(x, Num(x1)), Num(y2 - y1)) = Times(Minus(y, Num(y1)), Num(x2 - x1))
     /\ Between(Num(x1), x, Num(x2))
     /\ Between(Num(y1), y, Num(y2))

\* waypoint w is on the chord that starts at waypoint q
Along(q, w) ==
  \E g \in {Minus(q[1][2], w[1][2])} :
    /\ Le(Zero, g)
    /\ Lt(g, q[1][2])
    /\ Times(Minus(w[2], q[2]), Num(FDen)) = Times(g, Num(DR[q[1][1] + 1][1]))
    /\ Times(Minus(w[3], q[3]), Num(FDen)) = Times(g, Num(DR[q[1][1] + 1][2]))
    /\ w[1][1] = q[1][1]

C13_StartsFromLast ==
  \A i \in 2..Len(generated) :
    /\ generated[i][4] = PROPAGATE =>
         << generated[i][1], generated[i][2], generated[i][3] >>
           = UpdatePosition(generated[i - 1][1], generated[i - 1][2],
                            generated[i - 1][3])
    /\ generated[i][4] \in {COLLISION, CCOLLISION, ABSORBED, CABSORBED} =>
         Along(generated[i - 1], generated[i])
    /\ (generated[i][4] = INJECTING /\ generated[i][5] = None) =>
         /\ IsAbsorption(generated[i - 1])
         /\ generated[i - 1][5] \in EdgeKeys
         /\ \E e \in EdgeKeys :
              /\ Layer(e) = Layer(generated[i - 1][5])
              /\ OnEdge(e, generated[i][2], generated[i][3])
         /\ generated[i][1] \in InjectionIndices

\* a particle absorbed on a floating contact of layer 3 was injected again
\* and took its next step from there, nothing of it being stored
C13_Witness ==
  /\ stored_states = {}
  /\ \E i \in 1..(Len(generated) - 2) :
       /\ IsAbsorption(generated[i])
       /\ generated[i][5] \in EdgeKeys
       /\ Layer(generated[i][5]) = 3
       /\ generated[i + 1][4] = INJECTING
       /\ generated[i + 2][4] \in {PROPAGATE, COLLISION, CCOLLISION, ABSORBED,
                                   CABSORBED}

(***************************************************************************)
(* C14: a step that returns adds one to the counter of every auxiliary     *)
(* line that the full proposed step, from the step's start to the start    *)
(* advanced by _update_position, meets (the two segments share a point     *)
(* and are not parallel), in either direction and in every branch, also    *)
(* when a hit ends the step before the line; it adds nothing to the        *)
(* counter of any other line; it adds to a frame segment's counter the     *)
(* number of the step's waypoints that carry the segment; and no waypoint  *)
(* carries an auxiliary line.                                              *)
(***************************************************************************)
\* twice the signed area of the triangle (a, b, c)
Orient(ax, ay, bx, by, cx, cy) ==
  Minus(Times(Minus(bx, ax), Minus(cy, ay)), Times(Minus(by, ay), Minus(cx, ax)))

\* o1 and o2 are not both positive and not both negative
Across(o1, o2) ==
  /\ ~IsNaN(o1)
  /\ ~IsNaN(o2)
  /\ ~(Positive(o1) /\ Positive(o2))
  /\ ~(Positive(Neg(o1)) /\ Positive(Neg(o2)))

\* the segment from (x, y) to (x_new, y_new) meets auxiliary line l
Meets(x, y, x_new, y_new, l) ==
  LET ax == Num(OhmicLineEdges[l].xs[1])
      ay == Num(OhmicLineEdges[l].ys[1])
      bx == Num(OhmicLineEdges[l].xs[2])
      by == Num(OhmicLineEdges[l].ys[2])
  IN /\ Times(Minus(x_new, x), Minus(by, ay)) # Times(Minus(y_new, y), Minus(bx, ax))
     /\ Across(Orient(x, y, x_new, y_new, ax, ay), Orient(x, y, x_new, y_new, bx, by))
     /\ Across(Orient(ax, ay, bx, by, x, y), Orient(ax, ay, bx, by, x_new, y_new))

\* the full proposed step from the last waypoint meets auxiliary line l
FullStepMeets(l) ==
  LET new == UpdatePosition(Last[1], Last[2], Last[3])
  IN Meets(Last[2], Last[3], new[2], new[3], l)

C14_LinesTallyFullStep ==
  [][(pc = "while" /\ generated' # generated) =>
       /\ \A l \in 1..NLines :
            edge_to_count'[NEdges + l]
              = edge_to_count[NEdges + l] + (IF FullStepMeets(l) THEN 1 ELSE 0)
       /\ \A k \in EdgeKeys :
            edge_to_count'[k]
              = edge_to_count[k]
                  + Cardinality({i \in 1..Len(step_params') : step_params'[i][5] = k})
       /\ \A i \in 1..Len(step_params') : step_params'[i][5] \in EdgeKeys \cup {None}]_vars

\* the first step of a call hit the frame inside the device and was counted
\* on the auxiliary line that lies beyond the wall it hit
C14_Witness ==
  /\ HasHit
  /\ Len(generated) = 3
  /\ InBody(step_params[1][2], step_params[1][3])
  /\ edge_to_count[NEdges + 2] = 1
  /\ ~Meets(generated[1][2], generated[1][3], step_params[1][2], step_params[1][3], 2)

====
